---- MODULE Spec2Model ----
(***************************************************************************)
(* A model of django_components: argument resolution of Component.context, *)
(* class-definition validation, the component template tag's render, slot  *)
(* reconciliation and the dependency middleware's placeholder replacement. *)
(***************************************************************************)
EXTENDS Integers, Sequences, FiniteSets, TLC

VARIABLES
    \* ---- Component.context (component.py 157-198) ----
    cls,            \* class attributes read by context()
    call_args,      \* *args of the last call
    call_kwargs,    \* **kwargs of the last call
    ctx_result,     \* what the last call returned or raised
    \* ---- class definition and the registry (component.py 98, 127-155) ----
    registry,       \* component name -> registered class
    class_def,      \* the last class statement and how it ended
    \* ---- ComponentDependencyMiddleware (middleware.py) ----
    import_scripts_as_modules,  \* self.import_scripts_as_modules
    mw_phase,           \* where the response is in its life
    rendered_set,       \* context_data[RENDERED_COMPONENTS_CONTEXT_KEY]
    response_content,   \* response.content, a sequence of pieces
    replacer,           \* the DependencyReplacer: css_string, js_string
    sub_in,             \* re.sub: the string it was given
    sub_pos,            \* re.sub: the piece of that string it is at
    sub_out,            \* re.sub: the result built so far
    \* ---- the component tag's render (component_tags.py, component.py) ----
    settings_DEBUG,     \* settings.DEBUG
    node,               \* the compiled ComponentNode, shared by all renders
    outer_context,      \* node.component.outer_context
    dep_sets,           \* the dependency set created for each response
    pc,                 \* where each request is in ComponentNode.render
    context_data,       \* the variables each request's view passed
    entry_context,      \* the layers of that Context when the tag was reached
    caller_context,     \* the Context each request renders the page with
    fresh_context,      \* the Context made by context.new(), if any
    rendered_components_set,  \* the local variable of that name
    component_context,  \* the mapping context() returned
    render_result       \* what BaseComponent.render returned or raised

contextVars == <<cls, call_args, call_kwargs, ctx_result>>
declVars == <<registry, class_def>>
mwVars == <<import_scripts_as_modules, mw_phase, rendered_set, response_content,
            replacer, sub_in, sub_pos, sub_out>>
renderVars == <<settings_DEBUG, node, outer_context, dep_sets, pc, context_data,
                entry_context, caller_context, fresh_context, rendered_components_set,
                component_context, render_result>>
vars == <<contextVars, declVars, mwVars, renderVars>>

(***************************************************************************)
(* Values and mappings                                                     *)
(***************************************************************************)
\* The "required" sentinel of positional and keyword props.  Prop values are
\* pairs <<origin, index>>, so the sentinel is one too.
Ellipsis == <<"Ellipsis", 0>>

EmptyMap == [k \in {} |-> Ellipsis]

\* dict(f, **g) and f.update(g): the keys of g win.
DictMerge(f, g) ==
    [k \in (DOMAIN f) \cup (DOMAIN g) |-> IF k \in DOMAIN g THEN g[k] ELSE f[k]]

\* d.get(k, default)
DictGet(d, k, default) == IF k \in DOMAIN d THEN d[k] ELSE default

Range(s) == {s[i] : i \in DOMAIN s}

\* The outcome of a call: a returned value, or the exception it raised.
Returned(v) == [exc |-> "none", value |-> v]
Raised(e) == [exc |-> e, value |-> EmptyMap]
NotCalled == [exc |-> "not_called", value |-> EmptyMap]

(***************************************************************************)
(* Bounds and input sets                                                   *)
(***************************************************************************)
\* Most positional props a class declares; a call passes up to one more
\* positional argument than that.
MaxPositional == 2

\* Names a class declares props under, and names a call passes keywords
\* under: one more, which no class declares.
PropNames == {"a", "b"}
KeywordNames == PropNames \cup {"c"}

\* The i-th positional argument of a call, the value of every keyword
\* argument, and the declared defaults: one distinct value per origin.
ArgValue(i) == <<"arg", i>>
KwValue == <<"kw", 0>>
PositionalDefault == <<"pdef", 0>>
KeywordDefault == <<"kdef", 0>>

\* Sequences of distinct prop names, at most n long.
RECURSIVE DistinctSeqs(_)
DistinctSeqs(n) ==
    IF n = 0 THEN {<<>>}
    ELSE LET shorter == DistinctSeqs(n - 1)
         IN  shorter \cup
             {Append(s, x) : <<s, x>> \in
                 {p \in shorter \X PropNames :
                     Len(p[1]) = n - 1 /\ p[2] \notin Range(p[1])}}

\* Mappings from some of the names to values of vals.
PartialMaps(names, vals) == UNION {[d -> vals] : d \in SUBSET names}

(***************************************************************************)
(* Component.context                                                       *)
(***************************************************************************)
\* provided_positional_props (line 164): zip(names, args) as a dict; of a name
\* listed twice the last pair wins.
ProvidedPositional(names, args) ==
    LET n == IF Len(args) < Len(names) THEN Len(args) ELSE Len(names)
        last(k) == CHOOSE i \in 1..n :
                       names[i] = k /\ \A j \in 1..n : names[j] = k => j <= i
    IN  [k \in {names[i] : i \in 1..n} |-> args[last(k)]]

\* The loop without the check of line 171: a name passed both ways keeps its
\* positional value.
RECURSIVE MergePositional_NoConflictCheck(_, _, _, _, _)
MergePositional_NoConflictCheck(c, provided, kwargs, i, final) ==
    IF i > Len(c.names) THEN Returned(final)
    ELSE LET name == c.names[i]
             value == IF name \in DOMAIN provided THEN provided[name]
                      ELSE IF name \in DOMAIN kwargs THEN kwargs[name]
                      ELSE DictGet(c.defaults, name, Ellipsis)
         IN  IF value = Ellipsis
             THEN Raised("TypeError: missing positional")
             ELSE MergePositional_NoConflictCheck(c, provided, kwargs, i + 1,
                      DictMerge(final, [k \in {name} |-> value]))

\* The body of the loop of lines 169-183 from the i-th name on, with
\* final_positional_args so far in final.  The first raise ends the call.
RECURSIVE MergePositional(_, _, _, _, _)
MergePositional(c, provided, kwargs, i, final) ==
    IF i > Len(c.names) THEN Returned(final)
    ELSE LET name == c.names[i]
         IN  IF name \in DOMAIN provided
             THEN IF name \in DOMAIN kwargs
                  THEN Raised("TypeError: multiple values")
                  ELSE MergePositional(c, provided, kwargs, i + 1,
                           DictMerge(final, [k \in {name} |-> provided[name]]))
             ELSE IF name \in DOMAIN kwargs
             THEN MergePositional(c, provided, kwargs, i + 1,
                      DictMerge(final, [k \in {name} |-> kwargs[name]]))
             ELSE LET next ==
                          IF name \in DOMAIN c.defaults
                          THEN DictMerge(final, [k \in {name} |-> c.defaults[name]])
                          ELSE IF name \in DOMAIN c.keyword_props
                          THEN DictMerge(final, [k \in {name} |-> c.keyword_props[name]])
                          ELSE final
                  IN  IF DictGet(next, name, Ellipsis) = Ellipsis
                      THEN Raised("TypeError: missing positional")
                      ELSE MergePositional(c, provided, kwargs, i + 1, next)

\* extra_kwargs that forgets the keywords: nothing is ever unexpected.
ExtraKwargs_Empty(c, kwargs) == {}

\* extra_kwargs (lines 185-186)
ExtraKwargs(c, kwargs) ==
    (((DOMAIN kwargs) \ Range(c.names)) \ DOMAIN c.keyword_props) \ c.nonshadowing

\* missing_kwargs (lines 190-191)
MissingKwargs(c, kwargs) ==
    {k \in DOMAIN c.keyword_props :
        k \notin DOMAIN kwargs /\ c.keyword_props[k] = Ellipsis}

\* all_args (lines 195-196)
AllArgs(c, final, kwargs) == DictMerge(DictMerge(final, c.keyword_props), kwargs)

\* Component.context(*args, **kwargs) of a class with the attributes c.
context(c, args, kwargs) ==
    IF Len(args) > Len(c.names)
    THEN Raised("TypeError: unexpected positional")
    ELSE LET merged == MergePositional(c, ProvidedPositional(c.names, args),
                                       kwargs, 1, EmptyMap)
         IN  IF merged.exc # "none" THEN merged
             ELSE IF ExtraKwargs(c, kwargs) # {} /\ ~c.allow_arbitrary
             THEN Raised("TypeError: unexpected keyword")
             ELSE IF MissingKwargs(c, kwargs) # {}
             THEN Raised("TypeError: missing keyword")
             ELSE Returned(AllArgs(c, merged.value, kwargs))

\* The class attributes context() reads: _positional_prop_names,
\* _positional_prop_defaults (a default for every positional name, Ellipsis
\* for a required one, required names first), keyword_props,
\* nonshadowing_keyword_props and allow_arbitrary_keyword_props.
RequiredFirst(names, defaults) ==
    \A i, j \in 1..Len(names) :
        (i < j /\ defaults[names[i]] # Ellipsis) => defaults[names[j]] # Ellipsis

ClassAttributes ==
    {[names |-> ns, defaults |-> ds, keyword_props |-> kp,
      nonshadowing |-> nsh, allow_arbitrary |-> al] :
        <<ns, ds>> \in {p \in DistinctSeqs(MaxPositional) \X
                              PartialMaps(PropNames, {Ellipsis, PositionalDefault}) :
                           DOMAIN p[2] = Range(p[1]) /\ RequiredFirst(p[1], p[2])},
        kp \in PartialMaps(PropNames, {Ellipsis, KeywordDefault}),
        nsh \in SUBSET PropNames,
        al \in BOOLEAN}

CallArgs == {[i \in 1..n |-> ArgValue(i)] : n \in 0..(MaxPositional + 1)}
CallKwargs == PartialMaps(KeywordNames, {KwValue})

\* The variables of context() while another part of the program runs.
ContextIdle ==
    /\ cls = [names |-> <<>>, defaults |-> EmptyMap, keyword_props |-> EmptyMap,
              nonshadowing |-> {}, allow_arbitrary |-> FALSE]
    /\ call_args = <<>>
    /\ call_kwargs = EmptyMap
    /\ ctx_result = NotCalled

ContextInit ==
    /\ cls \in ClassAttributes
    /\ call_args = <<>>
    /\ call_kwargs = EmptyMap
    /\ ctx_result = NotCalled

\* A template tag, or any caller, calls component.context(*args, **kwargs).
CallContext ==
    \E args \in CallArgs, kwargs \in CallKwargs :
        /\ call_args' = args
        /\ call_kwargs' = kwargs
        /\ ctx_result' = context(cls, args, kwargs)
        /\ UNCHANGED <<cls, declVars, mwVars, renderVars>>

ContextNext == CallContext

(***************************************************************************)
(* Class definition: Component.__init_subclass__ and the registry          *)
(***************************************************************************)
\* Most entries of a declared positional_props list.
MaxProps == 2

\* An entry of positional_props: a bare name (a str), or a pair
\* (name, default) (a tuple) whose default may be Ellipsis.
BareProp(n) == [kind |-> "str", name |-> n, default |-> Ellipsis]
PairProp(n, d) == [kind |-> "tuple", name |-> n, default |-> d]
Props ==
    {BareProp(n) : n \in PropNames} \cup
    {PairProp(n, d) : n \in PropNames, d \in {Ellipsis, PositionalDefault}}

RECURSIVE SeqsUpTo(_, _)
SeqsUpTo(S, n) ==
    IF n = 0 THEN {<<>>}
    ELSE LET shorter == SeqsUpTo(S, n - 1)
         IN  shorter \cup {Append(s, x) : s \in shorter, x \in S}

ComponentNames == {"greeting", "card"}
ClassNames == {"Greeting", "Card"}

\* cls.__mro__ of a class defined as class X(Component).
Mro(c) ==
    IF c = "Component" THEN <<"Component", "BaseComponent", "object">>
    ELSE <<c, "Component", "BaseComponent", "object">>
IsSubclass(c, d) == d \in Range(Mro(c))

\* isinstance(item, Sequence): a str and a tuple both are.
IsSequence(item) == item.kind \in {"str", "tuple"}

\* is_iterable(item), lines 209-214.  The assignment str = basestring makes
\* str a local name; basestring does not exist, so the name stays unbound and
\* reading it in the second operand of `and` raises UnboundLocalError.
is_iterable(item) ==
    IF ~IsSequence(item) THEN Returned(FALSE)
    ELSE Raised("UnboundLocalError: str")

\* is_optional_arg(arg), lines 217-218
is_optional_arg(arg) ==
    LET it == is_iterable(arg)
    IN  IF it.exc # "none" THEN it
        ELSE IF ~it.value THEN Returned(FALSE)
        ELSE Returned(arg.default # Ellipsis)

\* all(is_optional_arg(arg) for arg in arg_iterator), line 136, from entry i.
RECURSIVE RestOptional(_, _)
RestOptional(props, i) ==
    IF i > Len(props) THEN Returned(TRUE)
    ELSE LET r == is_optional_arg(props[i])
         IN  IF r.exc # "none" THEN r
             ELSE IF ~r.value THEN Returned(FALSE)
             ELSE RestOptional(props, i + 1)

\* The validation of lines 132-140 from entry i: skip the required entries,
\* then every entry after the first optional one must be optional.
RECURSIVE ValidateOrder(_, _)
ValidateOrder(props, i) ==
    IF i > Len(props) THEN Returned(TRUE)     \* StopIteration, caught at 139
    ELSE LET r == is_optional_arg(props[i])
         IN  IF r.exc # "none" THEN r
             ELSE IF ~r.value THEN ValidateOrder(props, i + 1)
             ELSE LET rest == RestOptional(props, i + 1)
                  IN  IF rest.exc # "none" THEN rest
                      ELSE IF ~rest.value
                      THEN Raised("SyntaxError: required after optional")
                      ELSE Returned(TRUE)

\* Lines 143-152 from entry i: _positional_prop_names and
\* _positional_prop_defaults.
RECURSIVE ProcessProps(_, _, _, _)
ProcessProps(props, i, names, defaults) ==
    IF i > Len(props) THEN Returned([names |-> names, defaults |-> defaults])
    ELSE LET it == is_iterable(props[i])
         IN  IF it.exc # "none" THEN it
             ELSE LET default == IF it.value THEN props[i].default ELSE Ellipsis
                  IN  ProcessProps(props, i + 1, Append(names, props[i].name),
                          DictMerge(defaults, [k \in {props[i].name} |-> default]))

\* registry.register(name=..., component=...): fails if the name is taken.
RegistryRegister(reg, name, class) ==
    IF name \in DOMAIN reg THEN Raised("AlreadyRegistered")
    ELSE Returned(DictMerge(reg, [k \in {name} |-> class]))

\* Component.__init_subclass__(cls), lines 127-155, for the class statement d
\* with the registry reg: what it raised, the attributes it set and the
\* registry afterwards.  Line 130 is super(cls, Component): Python requires
\* Component to be a subclass of cls, which it never is of its own subclass.
InitSubclass(d, reg) ==
    LET failed(e) == [exc |-> e, attrs |-> EmptyMap, registry |-> reg]
    IN  IF ~IsSubclass("Component", d.class)
        THEN failed("TypeError: super(type, obj)")
        ELSE LET order == ValidateOrder(d.positional_props, 1)
                 attrs == ProcessProps(d.positional_props, 1, <<>>, EmptyMap)
             IN  IF order.exc # "none" THEN failed(order.exc)
                 ELSE IF attrs.exc # "none" THEN failed(attrs.exc)
                 ELSE LET reged == RegistryRegister(reg, d.component_name, d.class)
                      IN  IF reged.exc # "none"
                          THEN [exc |-> reged.exc, attrs |-> attrs.value,
                                registry |-> reg]
                          ELSE [exc |-> "none", attrs |-> attrs.value,
                                registry |-> reged.value]

ClassStatements ==
    {[class |-> c, component_name |-> n, positional_props |-> pp] :
        c \in ClassNames, n \in ComponentNames, pp \in SeqsUpTo(Props, MaxProps)}

NoClassStatement ==
    [statement |-> [class |-> "none", component_name |-> "none",
                    positional_props |-> <<>>],
     exc |-> "not_run", attrs |-> EmptyMap, registry_before |-> EmptyMap]

\* registry = ComponentRegistry(), line 98.
DeclInit ==
    /\ registry = EmptyMap
    /\ class_def = NoClassStatement

DeclIdle == DeclInit

\* A module is imported that holds `class X(Component): ...`: the class is
\* created and __init_subclass__ runs on it.
DefineSubclass ==
    \E d \in ClassStatements :
        LET r == InitSubclass(d, registry)
        IN  /\ class_def' = [statement |-> d, exc |-> r.exc, attrs |-> r.attrs,
                              registry_before |-> registry]
            /\ registry' = r.registry
            /\ UNCHANGED <<contextVars, mwVars, renderVars>>

\* A module registers a class by hand: registry.register(name, cls).
RegisterByHand ==
    \E n \in ComponentNames, c \in {"PlainA", "PlainB"} :
        /\ registry' = LET r == RegistryRegister(registry, n, c)
                       IN  IF r.exc = "none" THEN r.value ELSE registry
        /\ UNCHANGED <<class_def, contextVars, mwVars, renderVars>>

DeclNext == DefineSubclass \/ RegisterByHand

(***************************************************************************)
(* ComponentDependencyMiddleware and DependencyReplacer                    *)
(***************************************************************************)
\* Most pieces (placeholders and stretches of other text) of a rendered page.
MaxContent == 3

\* A rendered page is a sequence of pieces: the two placeholders of lines 7-8
\* and any other text.  A string of markup is the set of its tags; b"" is
\* the markup of no tags.
CSS_DEPENDENCY_PLACEHOLDER == [kind |-> "css_placeholder", tags |-> {}]
JS_DEPENDENCY_PLACEHOLDER == [kind |-> "js_placeholder", tags |-> {}]
OtherText == [kind |-> "text", tags |-> {}]
Markup(tags) == [kind |-> "markup", tags |-> tags]
EmptyBytes == Markup({})

Pieces == {CSS_DEPENDENCY_PLACEHOLDER, JS_DEPENDENCY_PLACEHOLDER, OtherText}

\* The components a page may render, and the Media each declares.
Components == {"A", "B"}
MediaOf(c) ==
    IF c = "A" THEN [css |-> {"a.css", "shared.css"}, js |-> {"a.js"}]
    ELSE [css |-> {"shared.css"}, js |-> {"b.js", "a.js"}]

\* join_media(components), lines 72-75: the sum of the medias; Media keeps
\* one entry per file.
join_media(components) ==
    [css |-> UNION {MediaOf(c).css : c \in components},
     js |-> UNION {MediaOf(c).js : c \in components}]

\* ''.join(media.render_css()) and ''.join(media.render_js()): one tag a file.
render_css(media) == {[file |-> f, module |-> FALSE] : f \in media.css}
render_js(media) == {[file |-> f, module |-> FALSE] : f \in media.js}

\* add_module_attribute_to_scripts(scripts), lines 44-45
add_module_attribute_to_scripts(tags) ==
    {[file |-> t.file, module |-> TRUE] : t \in tags}

\* DependencyReplacer.__init__(css_string, js_string, use_modules), 55-60
NewReplacer(css_string, js_string, use_modules) ==
    [css_string |-> Markup(css_string),
     js_string |-> Markup(IF use_modules
                          THEN add_module_attribute_to_scripts(js_string)
                          ELSE js_string)]

\* A replacer that never empties its strings: every placeholder gets the
\* markup.
ReplacerCall_KeepsStrings(r, match) ==
    IF match = CSS_DEPENDENCY_PLACEHOLDER
    THEN [replacement |-> r.css_string, replacer |-> r]
    ELSE [replacement |-> r.js_string, replacer |-> r]

\* DependencyReplacer.__call__(match), lines 62-69: the replacement and the
\* replacer afterwards.  re.sub only calls it on one of the two placeholders.
ReplacerCall(r, match) ==
    IF match = CSS_DEPENDENCY_PLACEHOLDER
    THEN [replacement |-> r.css_string,
          replacer |-> [r EXCEPT !.css_string = EmptyBytes]]
    ELSE [replacement |-> r.js_string,
          replacer |-> [r EXCEPT !.js_string = EmptyBytes]]

\* dependency_regex, lines 16-17: the pieces the pattern matches.
Matches(piece) == piece \in {CSS_DEPENDENCY_PLACEHOLDER, JS_DEPENDENCY_PLACEHOLDER}

NoReplacer == [css_string |-> EmptyBytes, js_string |-> EmptyBytes]

MiddlewareIdle ==
    /\ import_scripts_as_modules = FALSE
    /\ mw_phase = "idle"
    /\ rendered_set = {}
    /\ response_content = <<>>
    /\ replacer = NoReplacer
    /\ sub_in = <<>>
    /\ sub_pos = 0
    /\ sub_out = <<>>

\* __init__, lines 19-21; a response reaches process_template_response
\* before it is rendered.
MiddlewareInit ==
    /\ import_scripts_as_modules \in BOOLEAN
    /\ mw_phase = "response"
    /\ rendered_set = {}
    /\ response_content = <<>>
    /\ replacer = NoReplacer
    /\ sub_in = <<>>
    /\ sub_pos = 0
    /\ sub_out = <<>>

\* process_template_response, lines 26-41: a fresh set in the context and the
\* callback added.
ProcessTemplateResponse ==
    /\ mw_phase = "response"
    /\ rendered_set' = {}
    /\ mw_phase' = "callback_added"
    /\ UNCHANGED <<import_scripts_as_modules, response_content, replacer,
                   sub_in, sub_pos, sub_out, contextVars, declVars, renderVars>>

\* response.render(): the template is rendered; its component nodes add
\* their components to the set and the placeholder tags leave their markers
\* in the content.
RenderTemplate ==
    /\ mw_phase = "callback_added"
    /\ \E content \in SeqsUpTo(Pieces, MaxContent), rendered \in SUBSET Components :
        /\ response_content' = content
        /\ rendered_set' = rendered
    /\ mw_phase' = "rendered"
    /\ UNCHANGED <<import_scripts_as_modules, replacer, sub_in, sub_pos, sub_out,
                   contextVars, declVars, renderVars>>

\* component_dependency_callback, lines 32-36: the media of the rendered
\* components and the replacer; re.sub starts at the first piece.
CallbackStart ==
    /\ mw_phase = "rendered"
    /\ LET required_media == join_media(rendered_set)
       IN  replacer' = NewReplacer(render_css(required_media),
                                   render_js(required_media),
                                   import_scripts_as_modules)
    /\ sub_in' = response_content
    /\ sub_pos' = 1
    /\ sub_out' = <<>>
    /\ mw_phase' = "substituting"
    /\ UNCHANGED <<import_scripts_as_modules, rendered_set, response_content,
                   contextVars, declVars, renderVars>>

\* re.sub, line 37: the next piece is no match and is copied.
SubCopy ==
    /\ mw_phase = "substituting"
    /\ sub_pos <= Len(sub_in)
    /\ ~Matches(sub_in[sub_pos])
    /\ sub_out' = Append(sub_out, sub_in[sub_pos])
    /\ sub_pos' = sub_pos + 1
    /\ UNCHANGED <<import_scripts_as_modules, mw_phase, rendered_set,
                   response_content, replacer, sub_in, contextVars, declVars, renderVars>>

\* re.sub, line 37: the next piece is a match; the replacer is called.
SubReplace ==
    /\ mw_phase = "substituting"
    /\ sub_pos <= Len(sub_in)
    /\ Matches(sub_in[sub_pos])
    /\ LET r == ReplacerCall(replacer, sub_in[sub_pos])
       IN  /\ sub_out' = Append(sub_out, r.replacement)
           /\ replacer' = r.replacer
    /\ sub_pos' = sub_pos + 1
    /\ UNCHANGED <<import_scripts_as_modules, mw_phase, rendered_set,
                   response_content, sub_in, contextVars, declVars, renderVars>>

\* Line 37: re.sub returns and response.content is assigned.
CallbackDone ==
    /\ mw_phase = "substituting"
    /\ sub_pos > Len(sub_in)
    /\ response_content' = sub_out
    /\ mw_phase' = "done"
    /\ UNCHANGED <<import_scripts_as_modules, rendered_set, replacer, sub_in,
                   sub_pos, sub_out, contextVars, declVars, renderVars>>

MiddlewareNext ==
    \/ ProcessTemplateResponse
    \/ RenderTemplate
    \/ CallbackStart
    \/ SubCopy
    \/ SubReplace
    \/ CallbackDone

(***************************************************************************)
(* The component tags: compiling a tag into a ComponentNode                *)
(***************************************************************************)
RENDERED_COMPONENTS_CONTEXT_KEY == "_COMPONENT_DEPENDENCIES"

\* A bit of a tag's token: key is the keyword of key=text, "" for a bare
\* bit.  A text in quotes is a literal, any other text a variable.
Bit(key, text) == [key |-> key, text |-> text]
IsLiteral(text) == text \in {"'card'", "'lit'"}
LiteralValue(text) == <<text, 0>>

\* The value a template engine gives a variable it cannot find
\* (string_if_invalid).
Invalid == <<"", 0>>

\* check_for_isolated_context_keyword(bits), lines 176-181, never told that a
\* tag ends with only.
check_for_isolated_context_keyword_Never(bits) ==
    [bits |-> bits, isolated |-> FALSE]

\* check_for_isolated_context_keyword(bits), lines 176-181
check_for_isolated_context_keyword(bits) ==
    IF bits[Len(bits)] = Bit("", "only")
    THEN [bits |-> SubSeq(bits, 1, Len(bits) - 1), isolated |-> TRUE]
    ELSE [bits |-> bits, isolated |-> FALSE]

\* The bare bits and the keyword bits of a token, as parse_bits splits them.
RECURSIVE BareBits(_)
BareBits(bits) ==
    IF bits = <<>> THEN <<>>
    ELSE (IF bits[1].key = "" THEN <<bits[1].text>> ELSE <<>>) \o BareBits(Tail(bits))

KeywordBits(bits) ==
    [k \in {bits[i].key : i \in DOMAIN bits} \ {""} |->
        bits[CHOOSE i \in DOMAIN bits : bits[i].key = k].text]

\* component_name[1: -1], line 219: the name without its quotes.
Unquote(text) == IF text = "'card'" THEN "card" ELSE text

\* parse_component_with_args(parser, bits, tag_name), lines 184-223: the
\* component's name and the unresolved arguments.
parse_component_with_args(bits) ==
    LET tag_args == BareBits(bits)
        tag_kwargs == KeywordBits(bits)
    IN  IF Len(tag_args) > 1
        THEN [component_name |-> Unquote(tag_args[2]),
              context_args |-> SubSeq(tag_args, 3, Len(tag_args)),
              context_kwargs |-> tag_kwargs]
        ELSE [component_name |-> Unquote(tag_kwargs["name"]),
              context_args |-> <<>>,
              context_kwargs |-> [k \in (DOMAIN tag_kwargs) \ {"name"} |-> tag_kwargs[k]]]

\* ComponentNode.__init__, lines 87-95: slot_dict, which it stores in
\* component.slots.  Content is a sequence of pieces; the contents of slots
\* of one name are joined.
RECURSIVE SlotDict(_)
SlotDict(slots) ==
    IF slots = <<>> THEN EmptyMap
    ELSE LET rest == SlotDict(Tail(slots))
             name == slots[1].name
         IN  DictMerge(rest, [k \in {name} |->
                 slots[1].nodelist \o DictGet(rest, name, <<>>)])

\* do_component (52-57) and do_component_block (131-159): the ComponentNode
\* of a tag.  Only component_block collects slots.
CompileTag(tag) ==
    LET checked == check_for_isolated_context_keyword(tag.bits)
        parsed == parse_component_with_args(checked.bits)
    IN  [tag |-> tag,
         component_name |-> parsed.component_name,
         context_args |-> parsed.context_args,
         context_kwargs |-> parsed.context_kwargs,
         slots |-> SlotDict(IF tag.bits[1].text = "component_block"
                            THEN tag.slots ELSE <<>>),
         isolated_context |-> checked.isolated]

\* A slot of a call site or of a template.
Slot(name, content) == [name |-> name, nodelist |-> <<content>>]

\* The tags a page template is compiled from.
Tags ==
    {[bits |-> <<Bit("", "component"), Bit("", "'card'")>> \o args \o only,
      slots |-> <<>>] :
        args \in {<<>>, <<Bit("", "u")>>, <<Bit("b", "u")>>, <<Bit("c", "'lit'")>>},
        only \in {<<>>, <<Bit("", "only")>>}}
    \cup
    {[bits |-> <<Bit("", "component_block"), Bit("", "'card'"), Bit("b", "'lit'")>>
               \o only,
      slots |-> slots] :
        only \in {<<>>, <<Bit("", "only")>>},
        slots \in {<<Slot("a", "caller a"), Slot("c", "caller c")>>,
                   <<Slot("a", "caller a")>>}}

\* The class registered as 'card': the attributes context() reads, its
\* template (text, slot a, slot b) and that it declares Media.
CardClass ==
    [names |-> <<"a">>, defaults |-> [k \in {"a"} |-> PositionalDefault],
     keyword_props |-> [k \in {"b"} |-> KeywordDefault],
     nonshadowing |-> {}, allow_arbitrary |-> FALSE]

CardTemplate ==
    <<[slot |-> FALSE, name |-> "", nodelist |-> <<"card text">>],
      [slot |-> TRUE, name |-> "a", nodelist |-> <<"default a">>],
      [slot |-> TRUE, name |-> "b", nodelist |-> <<"default b">>]>>

CardHasMedia == TRUE

(***************************************************************************)
(* Template contexts                                                       *)
(***************************************************************************)
\* A Context is its stack of layers, the base first.
\* context.flatten(): the layers merged, the upper ones winning.
RECURSIVE Flatten(_)
Flatten(ctx) ==
    IF ctx = <<>> THEN EmptyMap
    ELSE DictMerge(Flatten(SubSeq(ctx, 1, Len(ctx) - 1)), ctx[Len(ctx)])

\* key in context
ContextHas(ctx, key) == key \in DOMAIN Flatten(ctx)

\* An assignment that would be lost.
ContextSet_Lost(ctx, key, value) == ctx
\* context[key] = value: set in the top layer.
ContextSet(ctx, key, value) ==
    [ctx EXCEPT ![Len(ctx)] = DictMerge(ctx[Len(ctx)], [k \in {key} |-> value])]

\* context.new(): a context of its own with one empty layer.
ContextNew == <<EmptyMap>>

\* context.update(mapping): the mapping pushed as a layer; leaving the with
\* block pops it.
ContextPush(ctx, mapping) == Append(ctx, mapping)
\* A with block that would leave its layer behind.
ContextPop_KeepsLayer(ctx) == ctx
ContextPop(ctx) == SubSeq(ctx, 1, Len(ctx) - 1)

\* safe_resolve(context_item, context), lines 226-229
safe_resolve(text, ctx) ==
    IF IsLiteral(text) THEN LiteralValue(text)
    ELSE DictGet(Flatten(ctx), text, Invalid)

(***************************************************************************)
(* BaseComponent.render                                                    *)
(***************************************************************************)
\* The value of a parameter left at its default None.
NoneValue == [none |-> TRUE]

\* slots_in_template(template), lines 57-59
slots_in_template(template) ==
    [n \in {template[i].name : i \in {j \in DOMAIN template : template[j].slot}} |->
        template[CHOOSE i \in DOMAIN template :
                     template[i].slot /\ template[i].name = n].nodelist]

\* Lines 80-86: every node replaced by the content of its slot, or kept, and
\* the whole rendered.
RECURSIVE FlattenedNodelist(_, _)
FlattenedNodelist(template, combined_slots) ==
    IF template = <<>> THEN <<>>
    ELSE (IF template[1].slot THEN combined_slots[template[1].name]
          ELSE template[1].nodelist)
         \o FlattenedNodelist(Tail(template), combined_slots)

\* BaseComponent.render(context, slots_filled=None), lines 61-86.
\* Line 62 is dict(slots_filled): of None it raises TypeError.  Lines 67-68
\* put a dict's keys view in a set literal: a keys view is unhashable, so
\* that raises TypeError for every dict.
BaseComponentRender(template, slots_filled) ==
    IF slots_filled = NoneValue
    THEN Raised("TypeError: 'NoneType' object is not iterable")
    ELSE LET keys_view_hashable == FALSE
             filled == slots_filled.dict
             in_template == slots_in_template(template)
             unexpected == (DOMAIN filled) \ (DOMAIN in_template)
             kept == [k \in (DOMAIN filled) \ unexpected |-> filled[k]]
         IN  IF ~keys_view_hashable
             THEN Raised("TypeError: unhashable type: 'dict_keys'")
             ELSE Returned(FlattenedNodelist(template, DictMerge(in_template, kept)))

(***************************************************************************)
(* ComponentNode.render, one step a statement, for concurrent requests     *)
(***************************************************************************)
\* Requests that may render the compiled template at the same time.
NumRequests == 2
Requests == 1..NumRequests

\* The set made for the response of request r, and no set.
SetOf(r) == <<"set", r>>
NoneRef == <<"None", 0>>

\* The variables the view of request r passes to the template: a, which the
\* component's context also sets, and u, which it does not.
ViewData(r) == [k \in {"a", "u"} |-> <<k, r>>]

\* The Context a tag of request r's response can be rendered with: the
\* page's, without the middleware and with the set it put there, and the
\* one an isolated component renders its own template with (lines 121-127:
\* context.new(), the reference to the set, the component's mapping pushed;
\* that mapping is given the names and values of the view's data, so the
\* scope around the tag is the same in all three).
EntryContexts(r) ==
    LET tracked == [k \in {RENDERED_COMPONENTS_CONTEXT_KEY} |-> SetOf(r)]
    IN  {<<ViewData(r)>>,
         <<DictMerge(ViewData(r), tracked)>>,
         <<tracked, ViewData(r)>>}

\* The local variable context of ComponentNode.render: the caller's Context,
\* or after line 122 the one context.new() made.
LocalContext(r) ==
    IF fresh_context[r] # <<>> THEN fresh_context[r] ELSE caller_context[r]

\* The render variables while another part of the program runs.
RenderIdle ==
    /\ settings_DEBUG = FALSE
    /\ node = CompileTag([bits |-> <<Bit("", "component"), Bit("", "'card'")>>,
                          slots |-> <<>>])
    /\ outer_context = EmptyMap
    /\ dep_sets = [r \in Requests |-> {}]
    /\ pc = [r \in Requests |-> "request"]
    /\ context_data = [r \in Requests |-> EmptyMap]
    /\ entry_context = [r \in Requests |-> <<>>]
    /\ caller_context = [r \in Requests |-> <<>>]
    /\ fresh_context = [r \in Requests |-> <<>>]
    /\ rendered_components_set = [r \in Requests |-> NoneRef]
    /\ component_context = [r \in Requests |-> EmptyMap]
    /\ render_result = [r \in Requests |-> NotCalled]

\* The page template is compiled once: its tag becomes the ComponentNode that
\* every request renders.
RenderInit ==
    /\ settings_DEBUG \in BOOLEAN
    /\ node \in {CompileTag(t) : t \in Tags}
    /\ outer_context = EmptyMap
    /\ dep_sets = [r \in Requests |-> {}]
    /\ pc = [r \in Requests |-> "request"]
    /\ context_data = [r \in Requests |-> EmptyMap]
    /\ entry_context = [r \in Requests |-> <<>>]
    /\ caller_context = [r \in Requests |-> <<>>]
    /\ fresh_context = [r \in Requests |-> <<>>]
    /\ rendered_components_set = [r \in Requests |-> NoneRef]
    /\ component_context = [r \in Requests |-> EmptyMap]
    /\ render_result = [r \in Requests |-> NotCalled]

\* A request's view returns a response with its context data; with the
\* middleware installed process_template_response (middleware.py 27-29) puts
\* a fresh set in it; the render reaches the node with one of the contexts
\* a tag can stand in.
BeginRequest(r) ==
    /\ pc[r] = "request"
    /\ \E entry \in EntryContexts(r) :
        /\ context_data' = [context_data EXCEPT ![r] = ViewData(r)]
        /\ entry_context' = [entry_context EXCEPT ![r] = entry]
        /\ caller_context' = [caller_context EXCEPT ![r] = entry]
    /\ dep_sets' = [dep_sets EXCEPT ![r] = {}]
    /\ pc' = [pc EXCEPT ![r] = "l101"]
    /\ UNCHANGED <<settings_DEBUG, node, outer_context, fresh_context,
                   rendered_components_set, component_context, render_result,
                   contextVars, declVars, mwVars>>

\* Line 101: self.component.outer_context = context.flatten()
SnapshotOuterContext(r) ==
    /\ pc[r] = "l101"
    /\ outer_context' = Flatten(caller_context[r])
    /\ pc' = [pc EXCEPT ![r] = "l103"]
    /\ UNCHANGED <<settings_DEBUG, node, entry_context, dep_sets, context_data,
                   caller_context,
                   fresh_context, rendered_components_set, component_context,
                   render_result, contextVars, declVars, mwVars>>

\* Lines 103-105: the set is in the context; the component is added to it.
TrackDependency(r) ==
    /\ pc[r] = "l103"
    /\ ContextHas(caller_context[r], RENDERED_COMPONENTS_CONTEXT_KEY)
    /\ LET ref == Flatten(caller_context[r])[RENDERED_COMPONENTS_CONTEXT_KEY]
       IN  /\ rendered_components_set' = [rendered_components_set EXCEPT ![r] = ref]
           /\ dep_sets' = [dep_sets EXCEPT ![ref[2]] = @ \cup {node.component_name}]
    /\ pc' = [pc EXCEPT ![r] = "l114"]
    /\ UNCHANGED <<settings_DEBUG, node, entry_context, outer_context,
                   context_data,
                   caller_context, fresh_context, component_context,
                   render_result, contextVars, declVars, mwVars>>

\* Lines 106-108: no set, the component has Media and DEBUG is on.
MissingSetRaises(r) ==
    /\ pc[r] = "l103"
    /\ ~ContextHas(caller_context[r], RENDERED_COMPONENTS_CONTEXT_KEY)
    /\ CardHasMedia /\ settings_DEBUG
    /\ render_result' = [render_result EXCEPT ![r] = Raised("ImproperlyConfigured")]
    /\ pc' = [pc EXCEPT ![r] = "raised"]
    /\ UNCHANGED <<settings_DEBUG, node, entry_context, outer_context, dep_sets,
                   context_data,
                   caller_context, fresh_context, rendered_components_set,
                   component_context, contextVars, declVars, mwVars>>

\* Lines 109-110: no set and no complaint.
NoDependencySet(r) ==
    /\ pc[r] = "l103"
    /\ ~ContextHas(caller_context[r], RENDERED_COMPONENTS_CONTEXT_KEY)
    /\ ~(CardHasMedia /\ settings_DEBUG)
    /\ rendered_components_set' = [rendered_components_set EXCEPT ![r] = NoneRef]
    /\ pc' = [pc EXCEPT ![r] = "l114"]
    /\ UNCHANGED <<settings_DEBUG, node, entry_context, outer_context, dep_sets,
                   context_data,
                   caller_context, fresh_context, component_context,
                   render_result, contextVars, declVars, mwVars>>

\* Lines 114-118: the arguments resolved in the caller's context and
\* component.context called with them; its TypeError ends the render.
BuildComponentContext(r) ==
    /\ pc[r] = "l114"
    /\ LET args == [i \in DOMAIN node.context_args |->
                       safe_resolve(node.context_args[i], caller_context[r])]
           kwargs == [k \in DOMAIN node.context_kwargs |->
                         safe_resolve(node.context_kwargs[k], caller_context[r])]
           built == context(CardClass, args, kwargs)
       IN  IF built.exc = "none"
           THEN /\ component_context' = [component_context EXCEPT ![r] = built.value]
                /\ pc' = [pc EXCEPT ![r] = "l121"]
                /\ UNCHANGED render_result
           ELSE /\ render_result' = [render_result EXCEPT ![r] = built]
                /\ pc' = [pc EXCEPT ![r] = "raised"]
                /\ UNCHANGED component_context
    /\ UNCHANGED <<settings_DEBUG, node, entry_context, outer_context, dep_sets,
                   context_data,
                   caller_context, fresh_context, rendered_components_set,
                   contextVars, declVars, mwVars>>

\* Lines 121-125: an isolated node renders in context.new(), which gets the
\* reference to the set.
EnterContext(r) ==
    /\ pc[r] = "l121"
    /\ fresh_context' = [fresh_context EXCEPT ![r] =
           IF ~node.isolated_context THEN <<>>
           ELSE IF rendered_components_set[r] # NoneRef
           THEN ContextSet(ContextNew, RENDERED_COMPONENTS_CONTEXT_KEY,
                           rendered_components_set[r])
           ELSE ContextNew]
    /\ pc' = [pc EXCEPT ![r] = "l127"]
    /\ UNCHANGED <<settings_DEBUG, node, entry_context, outer_context, dep_sets,
                   context_data,
                   caller_context, rendered_components_set, component_context,
                   render_result, contextVars, declVars, mwVars>>

\* Line 127: with context.update(component_context)
PushComponentContext(r) ==
    /\ pc[r] = "l127"
    /\ IF fresh_context[r] # <<>>
       THEN /\ fresh_context' = [fresh_context EXCEPT ![r] =
                   ContextPush(@, component_context[r])]
            /\ UNCHANGED caller_context
       ELSE /\ caller_context' = [caller_context EXCEPT ![r] =
                   ContextPush(@, component_context[r])]
            /\ UNCHANGED fresh_context
    /\ pc' = [pc EXCEPT ![r] = "l128"]
    /\ UNCHANGED <<settings_DEBUG, node, entry_context, outer_context, dep_sets,
                   context_data,
                   rendered_components_set, component_context, render_result,
                   contextVars, declVars, mwVars>>

\* Line 128: self.component.render(context); slots_filled is not passed.
RenderComponent(r) ==
    /\ pc[r] = "l128"
    /\ render_result' = [render_result EXCEPT ![r] =
           BaseComponentRender(CardTemplate, NoneValue)]
    /\ pc' = [pc EXCEPT ![r] = "exit"]
    /\ UNCHANGED <<settings_DEBUG, node, entry_context, outer_context, dep_sets,
                   context_data,
                   caller_context, fresh_context, rendered_components_set,
                   component_context, contextVars, declVars, mwVars>>

\* The with block of line 127 is left, by return or by exception: the layer
\* is popped.
LeaveWith(r) ==
    /\ pc[r] = "exit"
    /\ IF fresh_context[r] # <<>>
       THEN /\ fresh_context' = [fresh_context EXCEPT ![r] = ContextPop(@)]
            /\ UNCHANGED caller_context
       ELSE /\ caller_context' = [caller_context EXCEPT ![r] = ContextPop(@)]
            /\ UNCHANGED fresh_context
    /\ pc' = [pc EXCEPT ![r] =
           IF render_result[r].exc = "none" THEN "returned" ELSE "raised"]
    /\ UNCHANGED <<settings_DEBUG, node, entry_context, outer_context, dep_sets,
                   context_data,
                   rendered_components_set, component_context, render_result,
                   contextVars, declVars, mwVars>>

\* The request is over; its context and its set are dropped.  The compiled
\* node and its component stay for the next request.
EndRequest(r) ==
    /\ pc[r] \in {"returned", "raised"}
    /\ pc' = [pc EXCEPT ![r] = "request"]
    /\ dep_sets' = [dep_sets EXCEPT ![r] = {}]
    /\ context_data' = [context_data EXCEPT ![r] = EmptyMap]
    /\ entry_context' = [entry_context EXCEPT ![r] = <<>>]
    /\ caller_context' = [caller_context EXCEPT ![r] = <<>>]
    /\ fresh_context' = [fresh_context EXCEPT ![r] = <<>>]
    /\ rendered_components_set' = [rendered_components_set EXCEPT ![r] = NoneRef]
    /\ component_context' = [component_context EXCEPT ![r] = EmptyMap]
    /\ render_result' = [render_result EXCEPT ![r] = NotCalled]
    /\ UNCHANGED <<settings_DEBUG, node, outer_context, contextVars, declVars,
                   mwVars>>

RenderNext ==
    \E r \in Requests :
        \/ BeginRequest(r)
        \/ SnapshotOuterContext(r)
        \/ TrackDependency(r)
        \/ MissingSetRaises(r)
        \/ NoDependencySet(r)
        \/ BuildComponentContext(r)
        \/ EnterContext(r)
        \/ PushComponentContext(r)
        \/ RenderComponent(r)
        \/ LeaveWith(r)
        \/ EndRequest(r)

(***************************************************************************)
(* Specifications: each runs one part of the program, the rest at rest     *)
(***************************************************************************)
\* Calls of context() on a class with any attributes.
InitContext == ContextInit /\ DeclIdle /\ MiddlewareIdle /\ RenderIdle
SpecContext == InitContext /\ [][ContextNext]_vars

\* Class statements and registrations at import time.
InitDecl == DeclInit /\ ContextIdle /\ MiddlewareIdle /\ RenderIdle
SpecDecl == InitDecl /\ [][DeclNext]_vars

\* One response through the dependency middleware.
InitMiddleware == MiddlewareInit /\ ContextIdle /\ DeclIdle /\ RenderIdle
SpecMiddleware == InitMiddleware /\ [][MiddlewareNext]_vars

\* Requests rendering one compiled template, each on its own thread.
Init == RenderInit /\ ContextIdle /\ DeclIdle /\ MiddlewareIdle
Next == RenderNext
Spec == Init /\ [][Next]_vars

(***************************************************************************)
(* Claims about class definition                                           *)
(***************************************************************************)
Defined == class_def.exc # "not_run"

\* An entry is optional when it is a pair with a real default.
OptionalProp(p) == p.kind = "tuple" /\ p.default # Ellipsis

RequiredAfterOptional(props) ==
    \E i, j \in 1..Len(props) :
        i < j /\ OptionalProp(props[i]) /\ ~OptionalProp(props[j])

\* The names and the defaults of a declaration, as lines 143-152 mean them.
RECURSIVE DeclaredOrder(_)
DeclaredOrder(props) ==
    IF props = <<>> THEN <<>>
    ELSE <<props[1].name>> \o DeclaredOrder(Tail(props))

DeclaredDefault(props, n) ==
    LET i == CHOOSE k \in 1..Len(props) :
                 props[k].name = n /\ \A m \in 1..Len(props) : props[m].name = n => m <= k
    IN  props[i].default

\* C9: a class statement whose positional_props lists a required prop after
\* an optional one fails and registers nothing; one whose required props all
\* precede the optional ones passes, gets _positional_prop_names in
\* declaration order with matching defaults, and is registered under its
\* component_name (when that name is still free).
C9_DeclarationValidated ==
    Defined =>
        LET d == class_def.statement
            pp == d.positional_props
        IN  IF RequiredAfterOptional(pp)
            THEN /\ class_def.exc # "none"
                 /\ DictGet(registry, d.component_name, "none") # d.class
            ELSE (d.component_name \notin DOMAIN class_def.registry_before) =>
                    /\ class_def.exc = "none"
                    /\ class_def.attrs.names = DeclaredOrder(pp)
                    /\ \A n \in Range(DeclaredOrder(pp)) :
                           class_def.attrs.defaults[n] = DeclaredDefault(pp, n)
                    /\ DictGet(registry, d.component_name, "none") = d.class

(***************************************************************************)
(* Claims about Component.context                                          *)
(***************************************************************************)
Called == ctx_result.exc # "not_called"
Accepted == ctx_result.exc = "none"

\* The names that received a positional argument: the first len(args) names.
PositionallySupplied ==
    {cls.names[i] : i \in {j \in 1..Len(cls.names) : j <= Len(call_args)}}
KeywordSupplied == DOMAIN call_kwargs
IndexOf(name) == CHOOSE i \in 1..Len(cls.names) : cls.names[i] = name
DeclaredNames == Range(cls.names) \cup DOMAIN cls.keyword_props

\* What strict precedence gives a declared name: positional argument, keyword
\* argument, positional default, keyword default.
ByPrecedence(name) ==
    IF name \in PositionallySupplied THEN call_args[IndexOf(name)]
    ELSE IF name \in KeywordSupplied THEN call_kwargs[name]
    ELSE IF name \in Range(cls.names) /\ cls.defaults[name] # Ellipsis
    THEN cls.defaults[name]
    ELSE cls.keyword_props[name]

\* C1: in the mapping an accepted call returns, every declared name has the
\* value strict precedence gives it: the positional argument, else the keyword
\* argument, else the positional default, else the keyword_props default; also
\* for a name declared both in positional_props and in keyword_props.
C1_StrictPrecedence ==
    Accepted =>
        \A name \in DeclaredNames \cap DOMAIN ctx_result.value :
            ctx_result.value[name] = ByPrecedence(name)

\* C5: a call that gives a positional name a value both positionally and by
\* keyword fails and returns no mapping.
C5_ConflictFails ==
    (Called /\ PositionallySupplied \cap KeywordSupplied # {}) =>
        (ctx_result.exc # "none" /\ ctx_result.value = EmptyMap)

C5_Witness ==
    /\ PositionallySupplied \cap KeywordSupplied # {}
    /\ ctx_result.exc = "TypeError: multiple values"

RequiredKeywords ==
    {x \in DOMAIN cls.keyword_props : cls.keyword_props[x] = Ellipsis}

\* C6: a call that does not supply a required keyword prop x (keyword_props
\* maps x to Ellipsis) fails, and the missing-required-keyword error is
\* raised only when the caller did not supply such an x.
C6_RequiredKeyword ==
    Called =>
        /\ (RequiredKeywords \ (PositionallySupplied \cup KeywordSupplied) # {})
               => ctx_result.exc # "none"
        /\ ctx_result.exc = "TypeError: missing keyword"
               => RequiredKeywords \ (PositionallySupplied \cup KeywordSupplied) # {}

\* The keywords of the call that the class declares nowhere.
UndeclaredKeywords ==
    {k \in KeywordSupplied :
        /\ k \notin Range(cls.names)
        /\ k \notin DOMAIN cls.keyword_props
        /\ k \notin cls.nonshadowing}

\* C7: a call passing an undeclared keyword fails when
\* allow_arbitrary_keyword_props is False; when it is True the call is not
\* rejected as unexpected and, accepted, returns the keyword with its value.
C7_UndeclaredKeyword ==
    (Called /\ UndeclaredKeywords # {}) =>
        IF cls.allow_arbitrary
        THEN /\ ctx_result.exc # "TypeError: unexpected keyword"
             /\ Accepted => \A k \in UndeclaredKeywords :
                                /\ k \in DOMAIN ctx_result.value
                                /\ ctx_result.value[k] = call_kwargs[k]
        ELSE ctx_result.exc # "none"

C7_Witness ==
    /\ UndeclaredKeywords # {}
    /\ ~cls.allow_arbitrary
    /\ ctx_result.exc = "TypeError: unexpected keyword"

\* C8: of an accepted call, a name of nonshadowing_keyword_props is a key of
\* the returned mapping if and only if the caller passed it as a keyword.
C8_NonshadowingOnlyIfSupplied ==
    Accepted =>
        \A name \in cls.nonshadowing :
            (name \in DOMAIN ctx_result.value) <=> (name \in KeywordSupplied)

(***************************************************************************)
(* Claims about the dependency middleware                                  *)
(***************************************************************************)
\* The markup of each kind for the components of the response.
CssMarkup == Markup(render_css(join_media(rendered_set)))
JsMarkup ==
    Markup(IF import_scripts_as_modules
           THEN add_module_attribute_to_scripts(render_js(join_media(rendered_set)))
           ELSE render_js(join_media(rendered_set)))

\* The i-th piece of the rendered content is the first placeholder of its
\* kind.
FirstOfItsKind(i) == \A j \in 1..(i - 1) : sub_in[j] # sub_in[i]

\* What the claim puts in the place of the i-th piece of the rendered content.
ExpectedPiece(i) ==
    LET piece == sub_in[i]
    IN  IF piece = CSS_DEPENDENCY_PLACEHOLDER
        THEN IF FirstOfItsKind(i) THEN CssMarkup ELSE EmptyBytes
        ELSE IF piece = JS_DEPENDENCY_PLACEHOLDER
        THEN IF FirstOfItsKind(i) THEN JsMarkup ELSE EmptyBytes
        ELSE piece

\* C3: the callback replaces the first placeholder of each kind with that
\* kind's combined markup and every later one of the same kind with the
\* empty string, per kind and however the two kinds interleave; all other
\* content stays.
C3_FirstPlaceholderOnly ==
    mw_phase = "done" =>
        /\ Len(response_content) = Len(sub_in)
        /\ \A i \in 1..Len(sub_in) : response_content[i] = ExpectedPiece(i)

\* The example of the claim: placeholders CSS, CSS, JS, with components that
\* have media.
C3_Witness ==
    /\ mw_phase = "done"
    /\ sub_in = <<CSS_DEPENDENCY_PLACEHOLDER, CSS_DEPENDENCY_PLACEHOLDER,
                  JS_DEPENDENCY_PLACEHOLDER>>
    /\ rendered_set = Components
    /\ response_content = <<CssMarkup, EmptyBytes, JsMarkup>>
    /\ CssMarkup # EmptyBytes /\ JsMarkup # EmptyBytes

(***************************************************************************)
(* Claims about rendering a component node                                 *)
(***************************************************************************)
\* What slot reconciliation should give: every node of the template in
\* order, a slot replaced by the call site's content of that name if there is
\* one, else by its own default.
RECURSIVE ReconciledOutput(_, _)
ReconciledOutput(template, filled) ==
    IF template = <<>> THEN <<>>
    ELSE (IF template[1].slot /\ template[1].name \in DOMAIN filled
          THEN filled[template[1].name]
          ELSE template[1].nodelist)
         \o ReconciledOutput(Tail(template), filled)

\* C2: rendering a component node completes without a fatal error and its
\* output shows, for each slot the template declares, the call site's content
\* if one was supplied and the template's default otherwise; content supplied
\* for a slot the template does not declare appears nowhere.
C2_SlotsReconciled ==
    \A r \in Requests :
        (pc[r] = "exit" /\ DOMAIN node.slots = {"a", "c"}) =>
            /\ render_result[r].exc = "none"
            /\ render_result[r].value = ReconciledOutput(CardTemplate, node.slots)
            /\ \A s \in (DOMAIN node.slots) \ {"a", "b"} :
                   \A i \in DOMAIN node.slots[s] :
                       node.slots[s][i] \notin Range(render_result[r].value)

TagEndsWithOnly == node.tag.bits[Len(node.tag.bits)] = Bit("", "only")

\* C4: a tag that ends with only renders its component in a context that
\* holds nothing of the caller's scope: only the mapping context() returned
\* and the dependency-tracking key; without only, every variable of the
\* caller's scope that the component context does not shadow is visible.
C4_Isolation ==
    \A r \in Requests :
        pc[r] \in {"l128", "exit"} =>
            LET visible == Flatten(LocalContext(r))
            IN  IF TagEndsWithOnly
                THEN \A v \in DOMAIN visible :
                        \/ v = RENDERED_COMPONENTS_CONTEXT_KEY
                        \/ /\ v \in DOMAIN component_context[r]
                           /\ visible[v] = component_context[r][v]
                ELSE \A v \in (DOMAIN context_data[r]) \ DOMAIN component_context[r] :
                        /\ v \in DOMAIN visible
                        /\ visible[v] = context_data[r][v]

\* An isolated render through the middleware: the caller had a and u, the
\* component sees its own a and no u.
C4_Witness ==
    \E r \in Requests :
        /\ pc[r] = "exit"
        /\ TagEndsWithOnly
        /\ rendered_components_set[r] = SetOf(r)
        /\ "u" \in DOMAIN context_data[r]
        /\ "u" \notin DOMAIN Flatten(LocalContext(r))
        /\ Flatten(LocalContext(r))["a"] = PositionalDefault

\* C10: while a request renders the shared node, the state its render wrote
\* is its own: the component's outer_context is the snapshot of this
\* request's context, and the set it added the component to is the one made
\* for its own response.
C10_NoStateAcrossRequests ==
    \A r \in Requests :
        pc[r] \in {"l103", "l114", "l121", "l127", "l128", "exit"} =>
            /\ \A v \in DOMAIN context_data[r] :
                   /\ v \in DOMAIN outer_context
                   /\ outer_context[v] = context_data[r][v]
            /\ rendered_components_set[r] \in {NoneRef, SetOf(r)}

\* C11: the caller's Context has the layers it had when the tag was reached
\* at every point of the render but inside the with block, and so after the
\* render has ended, by return or by an exception of the component's render
\* or of anything before it: nothing of the component's mapping stays
\* visible.  Inside the with block a tag without only has exactly one layer
\* more, the component's mapping, and an isolated tag has the caller's
\* Context as it was.
C11_CallerContextRestored ==
    \A r \in Requests :
        /\ pc[r] \in {"l101", "l103", "l114", "l121", "l127", "returned", "raised"} =>
               /\ caller_context[r] = entry_context[r]
               /\ Flatten(caller_context[r]) = Flatten(entry_context[r])
        /\ pc[r] \in {"l128", "exit"} =>
               IF node.isolated_context
               THEN caller_context[r] = entry_context[r]
               ELSE caller_context[r] =
                        Append(entry_context[r], component_context[r])

\* A tag without only whose component's render raised: the mapping that was
\* pushed set a to another value than the caller's, and the caller's two
\* layers are back.
C11_Witness ==
    \E r \in Requests :
        /\ pc[r] = "raised"
        /\ ~node.isolated_context
        /\ render_result[r] = Raised("TypeError: 'NoneType' object is not iterable")
        /\ Len(entry_context[r]) = 2
        /\ component_context[r]["a"] # Flatten(entry_context[r])["a"]
        /\ caller_context[r] = entry_context[r]

====
